---- MODULE Spec2Model ----
(***************************************************************************)
(* A model of the appstream collection code: the key-mapping (DEP-11 YAML) *)
(* mapper of src/src/yaml.rs and the loaders and the id lookup of          *)
(* src/src/collection.rs.                                                  *)
(*                                                                         *)
(* Text is a TLA+ string; "a" \o "b" is format!("{}{}", a, b).  Only the   *)
(* text handed to deserialize_date is a sequence of one-character strings, *)
(* because that function reads it character by character.                  *)
(* Option<T> is a sequence of length at most one, Result<T, E> is one of   *)
(* Ok(v), Err(e), and a panic (unwrap on None/Err, an index out of bounds) *)
(* is the third outcome Panic(at).                                         *)
(***************************************************************************)
EXTENDS Integers, Sequences, FiniteSets, TLC

VARIABLES
    e,              \* yaml.rs: the &Vec<Yaml> given to Collection::try_from
    result,         \* yaml.rs: what Collection::try_from returned
    tuple,          \* yaml.rs: the (origin, baseurl, node) given to Component::try_from
    component,      \* yaml.rs: what Component::try_from returned
    self,           \* collection.rs: the Collection find_by_id is called on (its components' ids)
    id,             \* collection.rs: the AppId argument of find_by_id
    found,          \* collection.rs: the indices, in order, of the components find_by_id returned
    loader,         \* collection.rs: the loader function that is running
    file,           \* collection.rs: the file (or byte slice) behind the loader's argument
    lpc,            \* collection.rs: the loader's position
    decoded,        \* collection.rs: chunks the GzDecoder has produced so far
    parsed,         \* collection.rs: chunks the content parser has consumed so far
    loaded,         \* collection.rs: what the loader returned
    c,              \* collection.rs: a Collection handed to serde
    serialized,     \* collection.rs: its serialized form
    deserialized,   \* collection.rs: what deserializing that form returned
    trees,          \* yaml.rs: per concurrent call of Collection::try_from, its own &Vec<Yaml>
    tpc,            \* yaml.rs: per call, where it is: "header", the document it maps next, "done"
    locals,         \* yaml.rs: per call, its local `collection`, `origin` and `media_base_url`
    returned        \* yaml.rs: per call, what it returned

vars == <<e, result, tuple, component, self, id, found, loader, file, lpc,
          decoded, parsed, loaded, c, serialized, deserialized,
          trees, tpc, locals, returned>>

mapVars == <<e, result>>
componentVars == <<tuple, component>>
lookupVars == <<self, id, found>>
loadVars == <<loader, file, lpc, decoded, parsed, loaded>>
serdeVars == <<c, serialized, deserialized>>
threadVars == <<trees, tpc, locals, returned>>

(***************************************************************************)
(* Bounds of the model.                                                    *)
(***************************************************************************)
MaxComponents == 2      \* component documents in a stream, components in a Collection
MaxKeys == 2            \* keys of a generated component mapping
MaxChunks == 2          \* chunks of payload in a loaded file

(***************************************************************************)
(* Option and Result.                                                      *)
(***************************************************************************)
None == <<>>
Some(x) == <<x>>
IsSome(o) == Len(o) = 1
IsNone(o) == Len(o) = 0
Unwrap(o) == o[1]

Ok(v) == [r |-> "Ok", v |-> v]
Err(err) == [r |-> "Err", e |-> err]
Panic(at) == [r |-> "Panic", at |-> at]
NotRun == [r |-> "NotRun"]
IsOk(res) == res.r = "Ok"
IsErr(res) == res.r = "Err"
IsPanic(res) == res.r = "Panic"

(***************************************************************************)
(* yaml_rust::Yaml: the parsed tree.  A Hash is an insertion-ordered list  *)
(* of <<key, value>> pairs with distinct keys (a LinkedHashMap).           *)
(***************************************************************************)
YString(s) == [t |-> "String", s |-> s]
YInteger(i) == [t |-> "Integer", i |-> i]
YReal(f) == [t |-> "Real", f |-> f]
YBoolean(b) == [t |-> "Boolean", b |-> b]
YArray(a) == [t |-> "Array", a |-> a]
YHash(h) == [t |-> "Hash", h |-> h]
BAD_VALUE == [t |-> "BadValue"]

as_str(y) == IF y.t = "String" THEN Some(y.s) ELSE None
as_i64(y) == IF y.t = "Integer" THEN Some(y.i) ELSE None
as_bool(y) == IF y.t = "Boolean" THEN Some(y.b) ELSE None
as_vec(y) == IF y.t = "Array" THEN Some(y.a) ELSE None
as_hash(y) == IF y.t = "Hash" THEN Some(y.h) ELSE None

\* LinkedHashMap::get: the value of the first pair whose key equals k.
RECURSIVE HashGetFrom(_, _, _)
HashGetFrom(h, k, i) ==
    IF i > Len(h) THEN None
    ELSE IF h[i][1] = k THEN Some(h[i][2])
    ELSE HashGetFrom(h, k, i + 1)

HashGet(h, k) == HashGetFrom(h, k, 1)

\* yaml["key"]: BAD_VALUE when yaml is no Hash or has no such key.
Index(y, key) ==
    IF y.t = "Hash"
    THEN LET got == HashGet(y.h, YString(key))
         IN IF IsSome(got) THEN Unwrap(got) ELSE BAD_VALUE
    ELSE BAD_VALUE

(***************************************************************************)
(* error.rs: the constructors of ParseError the mapper calls.              *)
(***************************************************************************)
missing_attribute(name, context) ==
    [kind |-> "MissingAttribute", name |-> name, context |-> context]
missing_tag(name) == [kind |-> "MissingTag", name |-> name]
missing_value(field) == [kind |-> "MissingValue", field |-> field]
invalid_value(value, field, context) ==
    [kind |-> "InvalidValue", value |-> value, field |-> field, context |-> context]

ErrorTaxonomy ==
    {"IoFailure", "DecompressionFailure", "MalformedTree", "MissingAttribute",
     "MissingTag", "MissingValue", "InvalidValue", "UrlParseFailure"}

(***************************************************************************)
(* AppId: a string with value equality.                                    *)
(***************************************************************************)
AppIdFrom(s) == s

(***************************************************************************)
(* Collection::find_by_id.                                                 *)
(***************************************************************************)
alternative_id(appid) == AppIdFrom(appid \o ".desktop")

\* The filter's closure, with its || dropped: a lookup without the alias.
find_by_id_matches_no_alias(cid, appid) == cid = appid

find_by_id_matches(cid, appid) == cid = appid \/ cid = alternative_id(appid)

\* components.iter().filter(..).collect(): the kept positions, in order.
RECURSIVE find_by_id_from(_, _, _)
find_by_id_from(components, appid, i) ==
    IF i > Len(components) THEN <<>>
    ELSE (IF find_by_id_matches(components[i], appid) THEN <<i>> ELSE <<>>)
         \o find_by_id_from(components, appid, i + 1)

find_by_id(components, appid) == find_by_id_from(components, appid, 1)

Ids == {"org.mozilla.Firefox", "org.mozilla.Firefox.desktop",
        "org.mozilla.Firefox.desktop.desktop", "gconf-editor", "gconf-editor.desktop"}

RECURSIVE SeqsUpTo(_, _)
SeqsUpTo(S, n) ==
    IF n = 0 THEN {<<>>}
    ELSE LET shorter == SeqsUpTo(S, n - 1)
         IN shorter \cup {Append(s, x) : s \in {q \in shorter : Len(q) = n - 1}, x \in S}

(***************************************************************************)
(* chrono: the text of an i64 and deserialize_date.  A date is kept as the *)
(* instant's seconds since 1970-01-01T00:00:00Z.                           *)
(***************************************************************************)
Digits == <<"0", "1", "2", "3", "4", "5", "6", "7", "8", "9">>
IsDigit(ch) == \E d \in 1..10 : Digits[d] = ch
DigitValue(ch) == (CHOOSE d \in 1..10 : Digits[d] = ch) - 1

\* i64::to_string for n >= 0, most significant digit first.
RECURSIVE NatToString(_)
NatToString(n) ==
    IF n < 10 THEN <<Digits[n + 1]>>
    ELSE Append(NatToString(n \div 10), Digits[(n % 10) + 1])

to_string(n) == IF n < 0 THEN <<"-">> \o NatToString(0 - n) ELSE NatToString(n)

\* chrono's scan::number: up to max digits from position i, at least one.
\* [n |-> digits taken, v |-> their value, next |-> the position after them]
RECURSIVE ScanNumber(_, _, _, _, _)
ScanNumber(s, i, max, n, v) ==
    IF i <= Len(s) /\ n < max /\ IsDigit(s[i])
    THEN ScanNumber(s, i + 1, max, n + 1, v * 10 + DigitValue(s[i]))
    ELSE [n |-> n, v |-> v, next |-> i]

\* Utc.datetime_from_str(date, "%s"): an unsigned run of digits and nothing
\* else; the instant is that many seconds after the epoch.
ParseTimestamp(s) ==
    LET num == ScanNumber(s, 1, Len(s) + 1, 0, 0)
    IN IF num.n >= 1 /\ num.next = Len(s) + 1 THEN Ok(num.v) ELSE Err("chrono::ParseError")

IsLeapYear(y) == (y % 4 = 0 /\ y % 100 # 0) \/ y % 400 = 0
DaysInMonth(y, m) ==
    IF m = 2 THEN (IF IsLeapYear(y) THEN 29 ELSE 28)
    ELSE IF m \in {4, 6, 9, 11} THEN 30 ELSE 31

\* Days from 1970-01-01 to the civil date y-m-d.
DaysFromCivil(y, m, d) ==
    LET yy == IF m <= 2 THEN y - 1 ELSE y
        era == yy \div 400
        yoe == yy - era * 400
        mp == IF m > 2 THEN m - 3 ELSE m + 9
        doy == (153 * mp + 2) \div 5 + d - 1
        doe == yoe * 365 + yoe \div 4 - yoe \div 100 + doy
    IN era * 146097 + doe - 719468

\* NaiveDate::parse_from_str(date, "%Y-%m-%d")?.and_hms(0, 0, 0) as UTC.
ParseNaiveDate(s) ==
    LET year == ScanNumber(s, 1, 4, 0, 0)
        dash1 == year.next
        month == ScanNumber(s, dash1 + 1, 2, 0, 0)
        dash2 == month.next
        day == ScanNumber(s, dash2 + 1, 2, 0, 0)
    IN IF /\ year.n >= 1
          /\ dash1 <= Len(s) /\ s[dash1] = "-"
          /\ month.n >= 1
          /\ dash2 <= Len(s) /\ s[dash2] = "-"
          /\ day.n >= 1
          /\ day.next = Len(s) + 1
          /\ month.v \in 1..12
          /\ day.v \in 1..DaysInMonth(year.v, month.v)
       THEN Ok(DaysFromCivil(year.v, month.v, day.v) * 86400)
       ELSE Err("chrono::ParseError")

\* A parser with the calendar fallback left out.
deserialize_date_epoch_only(date) == ParseTimestamp(date)

\* Utc.datetime_from_str(&date, "%s").or_else(|_| NaiveDate::parse_from_str(..))
deserialize_date(date) ==
    IF IsOk(ParseTimestamp(date)) THEN ParseTimestamp(date) ELSE ParseNaiveDate(date)

(***************************************************************************)
(* url: Url::parse on the texts the model can build.  An absolute URL      *)
(* parses to its normal form; anything else is a relative reference, which *)
(* Url::parse rejects for want of a base.                                  *)
(***************************************************************************)
UrlNormalForm(s) ==
    CASE s = "https://m.org/media/i.png" -> Some("https://m.org/media/i.png")
      [] s = "https://m.org/media/s.png" -> Some("https://m.org/media/s.png")
      [] s = "https://M.org/media/i.png" -> Some("https://m.org/media/i.png")
      [] s = "https://M.org/media/s.png" -> Some("https://m.org/media/s.png")
      [] OTHER -> None

Url_parse(s) ==
    IF IsSome(UrlNormalForm(s)) THEN Ok(Unwrap(UrlNormalForm(s)))
    ELSE Err([kind |-> "UrlParseFailure"])

(***************************************************************************)
(* enums.rs: the closed enums and their FromStr.                           *)
(***************************************************************************)
ComponentKinds ==
    {"runtime", "console-application", "desktop-application", "inputmethod",
     "operating-system", "web-application", "generic", "firmware", "driver",
     "localization", "addon", "font", "codec"}

ComponentKind_from_str(s) ==
    IF s \in ComponentKinds THEN Ok(s) ELSE Err("strum::ParseError")

KnownCategories == {"System", "Education", "Literature", "Network", "Utility"}

\* Category has the Unknown(String) variant as its FromStr default.
Category_from_str(s) ==
    IF s \in KnownCategories THEN Ok([category |-> s])
    ELSE Ok([category |-> "Unknown", token |-> s])

ReleaseKinds == {"stable", "development"}

ReleaseKind_from_str(s) ==
    IF s \in ReleaseKinds THEN Ok(s) ELSE Err("strum::ParseError")

\* u32::try_from(w).ok(): the model's integers lie below u32::MAX.
u32_try_from(w) == IF w >= 0 THEN Some(w) ELSE None

(***************************************************************************)
(* builders.rs and the translatable types.                                 *)
(***************************************************************************)
TranslatableDefault == [default |-> None, locales |-> <<>>]

\* (locale, text) pairs of a mapping; the "C" locale is the default value.
RECURSIVE add_pairs(_, _, _)
add_pairs(tr, h, i) ==
    IF i > Len(h) THEN tr
    ELSE IF h[i][1].t = "String" /\ h[i][1].s = "C"
         THEN add_pairs([tr EXCEPT !.default = Some(h[i][2])], h, i + 1)
         ELSE add_pairs([tr EXCEPT !.locales = Append(@, h[i])], h, i + 1)

add_for_yaml_element(tr, v) == IF v.t = "Hash" THEN add_pairs(tr, v.h, 1) ELSE tr

ComponentBuilder_default ==
    [id |-> None, origin |-> None, kind |-> "generic",
     name |-> TranslatableDefault, summary |-> TranslatableDefault,
     developer_name |-> TranslatableDefault, keywords |-> TranslatableDefault,
     description |-> TranslatableDefault,
     project_license |-> None, project_group |-> None, pkgname |-> None,
     source_pkgname |-> None, compulsory_for_desktop |-> <<>>,
     categories |-> <<>>, icons |-> <<>>, screenshots |-> <<>>,
     releases |-> <<>>, extends |-> <<>>,
     provides |-> <<>>, urls |-> <<>>, bundles |-> <<>>, launchables |-> <<>>,
     content_rating |-> None, metadata |-> <<>>]

ScreenshotBuilder_default == [is_default |-> TRUE, caption |-> TranslatableDefault, images |-> <<>>]

ImageBuilder_new(url) == [url |-> url, kind |-> "Source", width |-> None, height |-> None]

ReleaseBuilder_new(version) == [version |-> version, kind |-> None, date |-> None]

CollectionBuilder_new(version) ==
    [version |-> version, origin |-> None, media_base_url |-> None,
     components |-> <<>>, architecture |-> None]

(***************************************************************************)
(* The ? operator, ok_or_else and unwrap.                                  *)
(***************************************************************************)
\* `let x = res?; next(x)`: anything but Ok(x) is what the function returns.
AndThen(res, next(_)) == IF IsOk(res) THEN next(res.v) ELSE res

\* opt.ok_or_else(|| err)
OkOrElse(opt, err) == IF IsSome(opt) THEN Ok(Unwrap(opt)) ELSE Err(err)

\* opt.unwrap(): a panic at that place when opt is None.
Unwrapped(opt, at) == IF IsSome(opt) THEN Ok(Unwrap(opt)) ELSE Panic(at)

(***************************************************************************)
(* impl TryFrom<&Yaml> for AppId and for License.                          *)
(***************************************************************************)
AppId_try_from(y) ==
    AndThen(OkOrElse(as_str(y), missing_value("id")), LAMBDA s : Ok(AppIdFrom(s)))

License_try_from(y) == OkOrElse(as_str(y), missing_value("license"))

(***************************************************************************)
(* impl TryFrom<(&str, &str, &Yaml)> for Component: the arms of the match  *)
(* on a key.  Each takes the builder so far and gives Ok(builder), the     *)
(* Err the ? operator returns, or the Panic of an unwrap.                  *)
(***************************************************************************)
\* match icon["width"].as_i64() { Some(w) => u32::try_from(w).ok(), _ => None }
Dimension(y) == IF IsSome(as_i64(y)) THEN u32_try_from(Unwrap(as_i64(y))) ELSE None

\* The entries of a "cached" list, or of a list under any other kind (variant "Local").
RECURSIVE NamedIcons(_, _, _, _)
NamedIcons(b, variant, icons, i) ==
    IF i > Len(icons) THEN Ok(b)
    ELSE AndThen(OkOrElse(as_str(Index(icons[i], "name")), missing_value("icon_name")),
            LAMBDA name :
                NamedIcons(
                    [b EXCEPT !.icons = Append(@,
                        [icon |-> variant, path |-> name,
                         width |-> Dimension(Index(icons[i], "width")),
                         height |-> Dimension(Index(icons[i], "height"))])],
                    variant, icons, i + 1))

RECURSIVE RemoteIcons(_, _, _, _)
RemoteIcons(b, baseurl, icons, i) ==
    IF i > Len(icons) THEN Ok(b)
    ELSE AndThen(OkOrElse(as_str(Index(icons[i], "url")), missing_value("icon_name")),
            LAMBDA path :
                AndThen(Url_parse(baseurl \o path),
                    LAMBDA url :
                        RemoteIcons(
                            [b EXCEPT !.icons = Append(@,
                                [icon |-> "Remote", url |-> url,
                                 width |-> Dimension(Index(icons[i], "width")),
                                 height |-> Dimension(Index(icons[i], "height"))])],
                            baseurl, icons, i + 1)))

\* One (kind, value) pair of the Icon mapping.
IconKind(b, baseurl, x, y) ==
    AndThen(Unwrapped(as_str(x), "x.as_str().unwrap()"),
        LAMBDA kind :
            IF kind = "stock"
            THEN AndThen(OkOrElse(as_str(y), missing_value("stock_icon")),
                    LAMBDA name :
                        Ok([b EXCEPT !.icons = Append(@, [icon |-> "Stock", name |-> name])]))
            ELSE AndThen(Unwrapped(as_vec(y), "y.as_vec().unwrap()"),
                    LAMBDA icons :
                        IF kind = "cached" THEN NamedIcons(b, "Cached", icons, 1)
                        ELSE IF kind = "remote" THEN RemoteIcons(b, baseurl, icons, 1)
                        ELSE NamedIcons(b, "Local", icons, 1)))

RECURSIVE IconKinds(_, _, _, _)
IconKinds(b, baseurl, h, i) ==
    IF i > Len(h) THEN Ok(b)
    ELSE AndThen(IconKind(b, baseurl, h[i][1], h[i][2]),
            LAMBDA next : IconKinds(next, baseurl, h, i + 1))

IconArm(b, baseurl, v) ==
    AndThen(Unwrapped(as_hash(v), "v.as_hash().unwrap()"),
        LAMBDA h : IconKinds(b, baseurl, h, 1))

\* A token's Category, with an unlisted token refused the way the Type arm
\* refuses an unlisted kind.
CategoryOfListedOnly(token) ==
    IF token \in KnownCategories THEN Category_from_str(token)
    ELSE Err(invalid_value(token, "$value", "category"))

\* Category::from_str(&category).map_err(|_| invalid_value(&category, "$value", "category"))
CategoryOf(token) ==
    IF IsOk(Category_from_str(token)) THEN Category_from_str(token)
    ELSE Err(invalid_value(token, "$value", "category"))

RECURSIVE CategoriesFrom(_, _, _)
CategoriesFrom(b, xs, i) ==
    IF i > Len(xs) THEN Ok(b)
    ELSE AndThen(OkOrElse(as_str(xs[i]), missing_value("category")),
            LAMBDA token :
                AndThen(CategoryOf(token),
                    LAMBDA category :
                        CategoriesFrom([b EXCEPT !.categories = Append(@, category)],
                                       xs, i + 1)))

CategoriesArm(b, v) ==
    AndThen(Unwrapped(as_vec(v), "v.as_vec().unwrap()"),
        LAMBDA xs : CategoriesFrom(b, xs, 1))

\* A match with an arm for "provides", as the markup mapper has.
UnknownKeyProvides(b, key) ==
    IF key = "provides" THEN Ok([b EXCEPT !.provides = Append(@, key)]) ELSE Ok(b)

\* A match that refuses a key it has no arm for, unless the key is one of
\* the two read before the loop.
UnknownKeyRefused(b, key) ==
    IF key \in {"ID", "Type"} THEN Ok(b) ELSE Err(invalid_value(key, "key", "component"))

\* `_ => ()` of the component's match and `_ => {}` of the screenshot's: the
\* builder is left as it is.
UnknownKey(b, key) == Ok(b)

\* A thumbnail or the source image: Ok(image), Err, or the Panic of
\* width.unwrap() / height.unwrap().
ImageFrom(baseurl, kind, y) ==
    AndThen(OkOrElse(as_str(Index(y, "url")), missing_value("icon_name")),
        LAMBDA path :
            AndThen(Url_parse(baseurl \o path),
                LAMBDA url :
                    AndThen(Unwrapped(Dimension(Index(y, "width")), "width.unwrap()"),
                        LAMBDA width :
                            AndThen(Unwrapped(Dimension(Index(y, "height")), "height.unwrap()"),
                                LAMBDA height :
                                    Ok([ImageBuilder_new(url) EXCEPT
                                           !.kind = kind,
                                           !.width = Some(width),
                                           !.height = Some(height)])))))

RECURSIVE Thumbnails(_, _, _, _)
Thumbnails(s, baseurl, ts, i) ==
    IF i > Len(ts) THEN Ok(s)
    ELSE AndThen(ImageFrom(baseurl, "Thumbnail", ts[i]),
            LAMBDA img : Thumbnails([s EXCEPT !.images = Append(@, img)], baseurl, ts, i + 1))

\* One (key, value) pair of a screenshot entry.
ScreenshotKey(s, baseurl, x, y) ==
    AndThen(Unwrapped(as_str(x), "x.as_str().unwrap()"),
        LAMBDA kind :
            CASE kind = "default" ->
                    Ok([s EXCEPT !.is_default = IF IsSome(as_bool(y)) THEN y.b ELSE FALSE])
              [] kind = "caption" ->
                    Ok([s EXCEPT !.caption = add_for_yaml_element(@, y)])
              [] kind = "thumbnails" ->
                    AndThen(Unwrapped(as_vec(y), "y.as_vec().unwrap()"),
                        LAMBDA ts : Thumbnails(s, baseurl, ts, 1))
              [] kind = "source-image" ->
                    AndThen(ImageFrom(baseurl, "Source", y),
                        LAMBDA img : Ok([s EXCEPT !.images = Append(@, img)]))
              [] OTHER -> UnknownKey(s, kind))

RECURSIVE ScreenshotKeys(_, _, _, _)
ScreenshotKeys(s, baseurl, h, i) ==
    IF i > Len(h) THEN Ok(s)
    ELSE AndThen(ScreenshotKey(s, baseurl, h[i][1], h[i][2]),
            LAMBDA next : ScreenshotKeys(next, baseurl, h, i + 1))

\* ScreenshotBuilder::default().set_default(false), the entry's keys, then
\* s.caption(caption) and s.build().
ScreenshotFrom(baseurl, child) ==
    AndThen(Unwrapped(as_hash(child), "child.as_hash().unwrap()"),
        LAMBDA h :
            ScreenshotKeys([ScreenshotBuilder_default EXCEPT !.is_default = FALSE],
                           baseurl, h, 1))

RECURSIVE ScreenshotsFrom(_, _, _, _)
ScreenshotsFrom(b, baseurl, children, i) ==
    IF i > Len(children) THEN Ok(b)
    ELSE AndThen(ScreenshotFrom(baseurl, children[i]),
            LAMBDA s :
                ScreenshotsFrom([b EXCEPT !.screenshots = Append(@, s)],
                                baseurl, children, i + 1))

ScreenshotsArm(b, baseurl, v) ==
    AndThen(Unwrapped(as_vec(v), "v.as_vec().unwrap()"),
        LAMBDA children : ScreenshotsFrom(b, baseurl, children, 1))

\* deserialize_date(d.to_string()).map_err(|_| invalid_value(d.to_string(), "date", "release"))
DateOf(d) ==
    IF IsOk(deserialize_date(to_string(d))) THEN deserialize_date(to_string(d))
    ELSE Err(invalid_value(to_string(d), "date", "release"))

\* x["date"] and x["unix-timestamp"]: read only as an integer, whose decimal
\* text goes through deserialize_date; any other value is passed over.
ReleaseDate(release, y) ==
    IF IsNone(as_i64(y)) THEN Ok(release)
    ELSE AndThen(DateOf(y.i), LAMBDA d : Ok([release EXCEPT !.date = Some(d)]))

ReleaseKindOf(kind) ==
    IF IsOk(ReleaseKind_from_str(kind)) THEN ReleaseKind_from_str(kind)
    ELSE Err(invalid_value(kind, "type", "release"))

ReleaseType(release, y) ==
    IF IsNone(as_str(y)) THEN Ok(release)
    ELSE AndThen(ReleaseKindOf(y.s), LAMBDA kind : Ok([release EXCEPT !.kind = Some(kind)]))

\* A release reader that applies `unix-timestamp` first and `date` last.
ReleaseFromDateLast(x) ==
    AndThen(OkOrElse(as_str(Index(x, "version")), missing_value("version")),
        LAMBDA version :
            AndThen(ReleaseDate(ReleaseBuilder_new(version), Index(x, "unix-timestamp")),
                LAMBDA stamped :
                    AndThen(ReleaseDate(stamped, Index(x, "date")),
                        LAMBDA dated : ReleaseType(dated, Index(x, "type")))))

\* One turn of `for x in v.as_vec().unwrap()`, up to release.build().
ReleaseFrom(x) ==
    AndThen(OkOrElse(as_str(Index(x, "version")), missing_value("version")),
        LAMBDA version :
            AndThen(ReleaseDate(ReleaseBuilder_new(version), Index(x, "date")),
                LAMBDA dated :
                    AndThen(ReleaseDate(dated, Index(x, "unix-timestamp")),
                        LAMBDA stamped : ReleaseType(stamped, Index(x, "type")))))

RECURSIVE ReleasesFrom(_, _, _)
ReleasesFrom(b, xs, i) ==
    IF i > Len(xs) THEN Ok(b)
    ELSE AndThen(ReleaseFrom(xs[i]),
            LAMBDA release :
                ReleasesFrom([b EXCEPT !.releases = Append(@, release)], xs, i + 1))

ReleasesArm(b, v) ==
    AndThen(Unwrapped(as_vec(v), "v.as_vec().unwrap()"),
        LAMBDA xs : ReleasesFrom(b, xs, 1))

RECURSIVE ExtendsFrom(_, _, _)
ExtendsFrom(b, xs, i) ==
    IF i > Len(xs) THEN Ok(b)
    ELSE AndThen(AppId_try_from(xs[i]),
            LAMBDA app_id : ExtendsFrom([b EXCEPT !.extends = Append(@, app_id)], xs, i + 1))

ExtendsArm(b, v) ==
    AndThen(Unwrapped(as_vec(v), "v.as_vec().unwrap()"),
        LAMBDA xs : ExtendsFrom(b, xs, 1))

\* The arms that read one string: v.as_str().ok_or_else(|| missing_value(field))?
StringArm(v, field) == OkOrElse(as_str(v), missing_value(field))

\* The match on a key that is a string.
ComponentArm(b, baseurl, key, v) ==
    CASE key = "Name" -> Ok([b EXCEPT !.name = add_for_yaml_element(@, v)])
      [] key = "Summary" -> Ok([b EXCEPT !.summary = add_for_yaml_element(@, v)])
      [] key = "DeveloperName" ->
            Ok([b EXCEPT !.developer_name = add_for_yaml_element(@, v)])
      [] key = "Description" -> Ok([b EXCEPT !.description = add_for_yaml_element(@, v)])
      [] key = "Keywords" -> Ok([b EXCEPT !.keywords = add_for_yaml_element(@, v)])
      [] key = "ProjectLicense" ->
            AndThen(License_try_from(v),
                LAMBDA license : Ok([b EXCEPT !.project_license = Some(license)]))
      [] key = "Icon" -> IconArm(b, baseurl, v)
      [] key = "ProjectGroup" ->
            AndThen(StringArm(v, "project_group"),
                LAMBDA g : Ok([b EXCEPT !.project_group = Some(g)]))
      [] key = "CompulsoryForDesktop" ->
            AndThen(StringArm(v, "compulsory_for_desktop"),
                LAMBDA d : Ok([b EXCEPT !.compulsory_for_desktop = Append(@, d)]))
      [] key = "Package" ->
            AndThen(StringArm(v, "pkgname"), LAMBDA pkg : Ok([b EXCEPT !.pkgname = Some(pkg)]))
      [] key = "Categories" -> CategoriesArm(b, v)
      [] key = "SourcePackage" ->
            AndThen(StringArm(v, "source_pkgname"),
                LAMBDA pkg : Ok([b EXCEPT !.source_pkgname = Some(pkg)]))
      [] key = "Screenshots" -> ScreenshotsArm(b, baseurl, v)
      [] key = "Releases" -> ReleasesArm(b, v)
      [] key = "Extends" -> ExtendsArm(b, v)
      [] OTHER -> UnknownKey(b, key)

\* The body of `for (k, v) in e.as_hash().unwrap()`: match k.as_str().unwrap().
ComponentKey(b, baseurl, k, v) ==
    AndThen(Unwrapped(as_str(k), "k.as_str().unwrap()"),
        LAMBDA key : ComponentArm(b, baseurl, key, v))

RECURSIVE ComponentKeys(_, _, _, _)
ComponentKeys(b, baseurl, h, i) ==
    IF i > Len(h) THEN Ok(b)
    ELSE AndThen(ComponentKey(b, baseurl, h[i][1], h[i][2]),
            LAMBDA next : ComponentKeys(next, baseurl, h, i + 1))

\* A Type reader with a fallback, the way Category has one: an unlisted kind
\* becomes the builder's own kind.
ComponentKindOrGeneric(kind) ==
    IF IsOk(ComponentKind_from_str(kind)) THEN ComponentKind_from_str(kind)
    ELSE Ok("generic")

\* ComponentKind::from_str(kind).map_err(|_| invalid_value(kind, "type", "component"))

ComponentKindOf(kind) ==
    IF IsOk(ComponentKind_from_str(kind)) THEN ComponentKind_from_str(kind)
    ELSE Err(invalid_value(kind, "type", "component"))

\* if let Some(kind) = e["Type"].as_str() { component.kind(from_str(kind)?) }
ComponentType(b, node) ==
    IF IsNone(as_str(Index(node, "Type"))) THEN Ok(b)
    ELSE AndThen(ComponentKindOf(Index(node, "Type").s),
            LAMBDA kind : Ok([b EXCEPT !.kind = kind]))

\* An id lookup that reports an absent ID key the way AppId::try_from
\* reports a non-string one.
ComponentAppIdAsValue(node) ==
    AndThen(Unwrapped(as_hash(node), "e.as_hash().unwrap()"),
        LAMBDA h :
            AndThen(OkOrElse(HashGet(h, YString("ID")), missing_value("id")),
                LAMBDA y : AppId_try_from(y)))

\* AppId::try_from(e.as_hash().unwrap().get("ID").ok_or_else(|| missing_tag("id"))?)?
ComponentAppId(node) ==
    AndThen(Unwrapped(as_hash(node), "e.as_hash().unwrap()"),
        LAMBDA h :
            AndThen(OkOrElse(HashGet(h, YString("ID")), missing_tag("id")),
                LAMBDA y : AppId_try_from(y)))

Component_try_from(origin, baseurl, node) ==
    AndThen(ComponentType([ComponentBuilder_default EXCEPT !.origin = Some(origin)], node),
        LAMBDA typed :
            AndThen(ComponentAppId(node),
                LAMBDA app_id :
                    AndThen(ComponentKeys(typed, baseurl, node.h, 1),
                        LAMBDA keyed : Ok([keyed EXCEPT !.id = Some(app_id)]))))

(***************************************************************************)
(* impl TryFrom<&Vec<Yaml>> for Collection.                                *)
(***************************************************************************)
\* A header reader that falls back to an empty version.
HeaderVersionOrEmpty(header) ==
    IF IsSome(as_str(Index(header, "Version"))) THEN Ok(Index(header, "Version").s)
    ELSE Ok("")

\* header["Version"].as_str().ok_or_else(|| missing_attribute("version", "collection"))?
HeaderVersion(header) ==
    OkOrElse(as_str(Index(header, "Version")), missing_attribute("version", "collection"))

\* The first value when it is a non-empty string, else the builder's own.
NonEmptyOr(opt, old) == IF IsSome(opt) /\ opt # Some("") THEN opt ELSE old

\* CollectionBuilder::new(version) and the three `if let Some(..)` blocks.
HeaderBuilder(header, version) ==
    [CollectionBuilder_new(version) EXCEPT
        !.architecture = IF IsSome(as_str(Index(header, "Architecture")))
                         THEN as_str(Index(header, "Architecture")) ELSE @,
        !.origin = NonEmptyOr(as_str(Index(header, "Origin")), @),
        !.media_base_url = NonEmptyOr(as_str(Index(header, "MediaBaseUrl")), @)]

\* An origin read from the key of the statement that follows it.
HeaderOriginMisread(header) == StringArm(Index(header, "MediaBaseUrl"), "Origin")

\* let origin = header["Origin"].as_str().ok_or_else(|| missing_value("Origin"))?
HeaderOrigin(header) == StringArm(Index(header, "Origin"), "Origin")

\* let media_base_url = header["MediaBaseUrl"].as_str().ok_or_else(..)?
HeaderMediaBaseUrl(header) == StringArm(Index(header, "MediaBaseUrl"), "MediaBaseUrl")

\* A component loop that puts each new component in front of the others.
RECURSIVE CollectionComponentsPrepending(_, _, _, _, _)
CollectionComponentsPrepending(collection, origin, media_base_url, docs, i) ==
    IF i > Len(docs) THEN Ok(collection)
    ELSE AndThen(Component_try_from(origin, media_base_url, docs[i]),
            LAMBDA comp :
                CollectionComponentsPrepending(
                    [collection EXCEPT !.components = <<comp>> \o @],
                    origin, media_base_url, docs, i + 1))

\* A component loop that passes over a document that does not map and keeps
\* the components built from the others.
RECURSIVE CollectionComponentsLenient(_, _, _, _, _)
CollectionComponentsLenient(collection, origin, media_base_url, docs, i) ==
    IF i > Len(docs) THEN Ok(collection)
    ELSE IF IsOk(Component_try_from(origin, media_base_url, docs[i]))
         THEN CollectionComponentsLenient(
                  [collection EXCEPT !.components =
                       Append(@, Component_try_from(origin, media_base_url, docs[i]).v)],
                  origin, media_base_url, docs, i + 1)
         ELSE CollectionComponentsLenient(collection, origin, media_base_url, docs, i + 1)

\* for node in e.iter().skip(1) { collection.component(Component::try_from(..)?) }
RECURSIVE CollectionComponents(_, _, _, _, _)
CollectionComponents(collection, origin, media_base_url, docs, i) ==
    IF i > Len(docs) THEN Ok(collection)
    ELSE AndThen(Component_try_from(origin, media_base_url, docs[i]),
            LAMBDA comp :
                CollectionComponents([collection EXCEPT !.components = Append(@, comp)],
                                     origin, media_base_url, docs, i + 1))

Collection_try_from(docs) ==
    IF Len(docs) = 0 THEN Panic("e[0]")
    ELSE AndThen(HeaderVersion(docs[1]),
            LAMBDA version :
                AndThen(HeaderOrigin(docs[1]),
                    LAMBDA origin :
                        AndThen(HeaderMediaBaseUrl(docs[1]),
                            LAMBDA media_base_url :
                                CollectionComponents(HeaderBuilder(docs[1], version),
                                    origin, media_base_url, docs, 2))))

(***************************************************************************)
(* serde: #[derive(Serialize, Deserialize)] on Collection.  The serialized *)
(* form is the list of (field, value) pairs in declaration order.          *)
(***************************************************************************)
\* A Component's derive lives with the Component type: its form is the set
\* of its (field, value) pairs, read back field by field.
Component_serialize(comp) == {<<k, comp[k]>> : k \in DOMAIN comp}

Component_deserialize(obj) ==
    [k \in {p[1] : p \in obj} |-> (CHOOSE p \in obj : p[1] = k)[2]]

RECURSIVE MapSeq(_, _, _)
MapSeq(Op(_), xs, i) ==
    IF i > Len(xs) THEN <<>> ELSE <<Op(xs[i])>> \o MapSeq(Op, xs, i + 1)

\* #[serde(skip_serializing_if = "Option::is_none")]: Some(s) is written as s.
SerializeOption(key, opt) == IF IsNone(opt) THEN <<>> ELSE << <<key, Unwrap(opt)>> >>

\* #[serde(skip_serializing_if = "Vec::is_empty")]
SerializeComponents(key, components) ==
    IF Len(components) = 0 THEN <<>>
    ELSE << <<key, MapSeq(Component_serialize, components, 1)>> >>

Collection_serialize(col) ==
    << <<"version", col.version>> >>
    \o SerializeOption("origin", col.origin)
    \o SerializeOption("media_base_url", col.media_base_url)
    \o SerializeComponents("components", col.components)
    \o SerializeOption("architecture", col.architecture)

RECURSIVE FieldFrom(_, _, _)
FieldFrom(obj, key, i) ==
    IF i > Len(obj) THEN None
    ELSE IF obj[i][1] = key THEN Some(obj[i][2])
    ELSE FieldFrom(obj, key, i + 1)

\* A field read without #[serde(default)]: its absence is an error.
FieldRequired(obj, key, default) ==
    OkOrElse(FieldFrom(obj, key, 1), [kind |-> "serde", missing_field |-> key])

\* A field with #[serde(default)]: the value read, or the type's default.
FieldOrDefault(obj, key, default) ==
    IF IsSome(FieldFrom(obj, key, 1)) THEN Ok(FieldFrom(obj, key, 1)) ELSE Ok(default)

Collection_deserialize(obj) ==
    AndThen(OkOrElse(FieldFrom(obj, "version", 1), [kind |-> "serde", missing_field |-> "version"]),
        LAMBDA version :
        AndThen(FieldOrDefault(obj, "origin", None),
            LAMBDA origin :
            AndThen(FieldOrDefault(obj, "media_base_url", None),
                LAMBDA media_base_url :
                AndThen(FieldOrDefault(obj, "components", Some(<<>>)),
                    LAMBDA components :
                    AndThen(FieldOrDefault(obj, "architecture", None),
                        LAMBDA architecture :
                            Ok([version |-> version,
                                origin |-> origin,
                                media_base_url |-> media_base_url,
                                components |-> MapSeq(Component_deserialize, Unwrap(components), 1),
                                architecture |-> architecture]))))))

(***************************************************************************)
(* The loaders of Collection.  A file is read in chunks; `fault` is the    *)
(* number of chunks a damaged gzip stream still yields before its decoder  *)
(* fails (a stream cut short or corrupt at that place; `chunks` itself is  *)
(* damage in the trailer), None for a sound stream.  The decoder's count   *)
(* `decoded` reaches chunks + 1 when it has read the end of the stream.    *)
(***************************************************************************)
Loaders == {"from_path", "from_yaml_path", "from_gzipped", "from_yaml_gzipped",
            "from_gzipped_bytes"}
GzipLoaders == {"from_gzipped", "from_yaml_gzipped", "from_gzipped_bytes"}
YamlLoaders == {"from_yaml_path", "from_yaml_gzipped"}

\* error.rs: the From conversions behind the ? operator in the loaders.
ParseError_from(source) ==
    CASE source = "std::io::Error" -> [kind |-> "IoFailure", source |-> source]
      [] source = "xmltree::ParseError" -> [kind |-> "MalformedTree", source |-> source]

\* xml.rs: Collection::try_from(&Element), by what the document holds.
Collection_try_from_element(xml) ==
    IF xml.version THEN Ok(CollectionBuilder_new("0.8"))
    ELSE Err(missing_attribute("version", "components"))

\* Where a loader goes once File::open has succeeded.
AfterOpen(l) == IF l \in YamlLoaders THEN "read_to_string" ELSE "parse"

(***************************************************************************)
(* The inputs the operations are given.                                   *)
(***************************************************************************)
Entry(k, v) == <<YString(k), v>>
Map1(k1, v1) == YHash(<<Entry(k1, v1)>>)
Map2(k1, v1, k2, v2) == YHash(<<Entry(k1, v1), Entry(k2, v2)>>)
Map3(k1, v1, k2, v2, k3, v3) == YHash(<<Entry(k1, v1), Entry(k2, v2), Entry(k3, v3)>>)
OptEntry(k, opt) == IF IsSome(opt) THEN <<Entry(k, Unwrap(opt))>> ELSE <<>>

\* Document 0: every combination of the four header keys, each absent, a
\* string, an empty string or (for Version) a number; and a header that is
\* no mapping.
Headers ==
    {YHash(OptEntry("Version", v) \o OptEntry("Origin", o)
           \o OptEntry("Architecture", a) \o OptEntry("MediaBaseUrl", m)) :
        v \in {None, Some(YString("0.8")), Some(YString("")), Some(YReal("0.8"))},
        o \in {None, Some(YString("chromodoris-main")), Some(YString(""))},
        a \in {None, Some(YString("amd64"))},
        m \in {None, Some(YString("https://m.org/media/")), Some(YString(""))}}
    \cup {YString("Version")}

\* Component documents of a stream: good ones and ones that fail.
StreamNodes ==
    {Map1("ID", YString("org.mozilla.Firefox")),
     Map2("ID", YString("gconf-editor.desktop"), "Type", YString("desktop-application")),
     Map2("ID", YString("org.mozilla.Firefox.desktop"),
          "Categories", YArray(<<YString("mycustomcat"), YString("System")>>)),
     Map1("Type", YString("font")),
     Map2("ID", YString("gconf-editor"),
          "Releases", YArray(<<Map1("version", YString("")), Map1("version", YString("2.0"))>>)),
     Map2("ID", YString("gconf-editor"), "Type", YString("bogus")),
     YString("org.mozilla.Firefox")}

Streams ==
    {<<>>} \cup {<<h>> \o nodes : h \in Headers, nodes \in SeqsUpTo(StreamNodes, MaxComponents)}

\* The (key, value) pairs a generated component mapping is made of.
ReleaseEntries ==
    {YArray(<<Map3("version", YString("2.20.0"), "type", YString("stable"),
                   "unix-timestamp", YInteger(1560988800))>>),
     YArray(<<Map2("version", YString("2.20.0"), "date", YString("2019-06-20"))>>),
     YArray(<<Map3("version", YString("2.19.0"), "date", YInteger(86400),
                   "unix-timestamp", YInteger(1555718400))>>),
     YArray(<<Map2("version", YString("2.18.0"), "date", YInteger(20190620))>>),
     YArray(<<Map2("version", YString("2.17.0"), "date", YString("yesterday"))>>),
     YArray(<<Map1("version", YString("")), Map1("version", YString("2.0"))>>),
     YArray(<<Map1("unix-timestamp", YInteger(1560988800))>>),
     YArray(<<Map2("version", YString("2.0"), "type", YString("bogus"))>>),
     YString("2.0")}

IconEntries ==
    {Map1("stock", YString("web-browser")),
     Map1("stock", YInteger(1)),
     Map2("cached", YArray(<<Map3("name", YString("f.png"), "width", YInteger(48),
                                  "height", YInteger(48))>>),
          "remote", YArray(<<Map3("url", YString("i.png"), "width", YString("wide"),
                                  "height", YInteger(128))>>)),
     Map1("local", YArray(<<Map2("name", YString("f.png"), "width", YInteger(0 - 1))>>)),
     Map1("cached", YString("f.png")),
     YString("f.png")}

ScreenshotEntries ==
    {YArray(<<Map3("default", YBoolean(TRUE),
                   "thumbnails", YArray(<<Map3("url", YString("s.png"), "width", YInteger(224),
                                               "height", YInteger(182))>>),
                   "source-image", Map3("url", YString("i.png"), "width", YInteger(800),
                                        "height", YInteger(653)))>>),
     YArray(<<Map2("caption", Map1("C", YString("Timer window")), "X-Extra", YString("x"))>>),
     YArray(<<Map1("thumbnails", YArray(<<Map1("url", YString("s.png"))>>))>>),
     YArray(<<Map1("source-image", Map2("width", YInteger(800), "height", YInteger(653)))>>),
     YArray(<<YString("s.png")>>),
     YString("s.png")}

KeyPool ==
    {Entry("ID", YString("org.mozilla.Firefox")),
     Entry("ID", YString("gconf-editor.desktop")),
     Entry("ID", YInteger(5)),
     Entry("Type", YString("desktop-application")),
     Entry("Type", YString("bogus")),
     Entry("Type", YInteger(1)),
     Entry("Categories", YArray(<<YString("System")>>)),
     Entry("Categories", YArray(<<YString("mycustomcat"), YString("GNOME"), YString("GTK")>>)),
     Entry("Categories", YArray(<<YInteger(1)>>)),
     Entry("Categories", YString("System")),
     Entry("Extends", YArray(<<YString("libreoffice-base.desktop")>>)),
     Entry("Extends", YArray(<<YInteger(1)>>)),
     Entry("Package", YString("gconf-editor")),
     Entry("Package", YInteger(1)),
     Entry("ProjectLicense", YString("GPL-3.0")),
     Entry("Name", Map2("C", YString("Configuration Editor"), "pl", YString("Edytor konfiguracji"))),
     Entry("X-Unknown", YString("x")),
     Entry("provides", Map1("binaries", YArray(<<YString("firefox")>>))),
     Entry("url", Map1("homepage", YString("https://m.org/"))),
     Entry("bundle", Map1("flatpak", YString("app/org.mozilla.Firefox"))),
     Entry("launchable", Map1("desktop-id", YArray(<<YString("firefox.desktop")>>))),
     Entry("content_rating", Map1("oars-1.1", Map1("violence-cartoon", YString("mild")))),
     Entry("metadata", Map1("x-key", YString("x"))),
     <<YInteger(7), YString("x")>>}
    \cup {Entry("Releases", v) : v \in ReleaseEntries}
    \cup {Entry("Icon", v) : v \in IconEntries}
    \cup {Entry("Screenshots", v) : v \in ScreenshotEntries}

DistinctKeys(h) == \A i, j \in 1..Len(h) : i # j => h[i][1] # h[j][1]

\* What Component::try_from is given as its node: a mapping of at most MaxKeys
\* pool entries with distinct keys, in any order, or a node that is no mapping.
ComponentNodes ==
    {YHash(h) : h \in {q \in SeqsUpTo(KeyPool, MaxKeys) : DistinctKeys(q)}}
    \cup {YString("org.mozilla.Firefox"), YArray(<<>>)}

HeaderArguments ==
    {<<"chromodoris-main", "https://m.org/media/">>,
     <<"chromodoris-main", "https://M.org/media/">>,
     <<"", "">>}

\* The markup documents a file can hold: where the root element ends, the
\* chunk (if any) at which the text stops being well-formed, and whether the
\* root carries a version.
XmlDocuments(n) ==
    {[root_end |-> r, malformed_at |-> m, version |-> v] :
        r \in 1..n, m \in {None} \cup {Some(k) : k \in 1..n}, v \in BOOLEAN}

\* The key-mapping texts a file can hold: malformed, empty, or a stream.
YamlTexts ==
    {[wellformed |-> FALSE, docs |-> <<>>],
     [wellformed |-> TRUE, docs |-> <<>>],
     [wellformed |-> TRUE,
      docs |-> <<Map3("Version", YString("0.8"), "Origin", YString("chromodoris-main"),
                      "MediaBaseUrl", YString("https://m.org/media/")),
                 Map1("ID", YString("org.mozilla.Firefox"))>>],
     [wellformed |-> TRUE, docs |-> <<Map1("Origin", YString("chromodoris-main"))>>]}

NoXml == [root_end |-> 0, malformed_at |-> None, version |-> FALSE]
NoYaml == [wellformed |-> FALSE, docs |-> <<>>]

Files(l) ==
    {[exists |-> x, chunks |-> n, fault |-> f, xml |-> d, yaml |-> y] :
        x \in (IF l = "from_gzipped_bytes" THEN {TRUE} ELSE BOOLEAN),
        n \in 1..MaxChunks,
        f \in (IF l \in GzipLoaders THEN {None} \cup {Some(k) : k \in 0..MaxChunks} ELSE {None}),
        d \in (IF l \in YamlLoaders THEN {NoXml} ELSE XmlDocuments(MaxChunks)),
        y \in (IF l \in YamlLoaders THEN YamlTexts ELSE {NoYaml})}

WellFormedFiles(l) ==
    {f \in Files(l) :
        /\ IsSome(f.fault) => Unwrap(f.fault) <= f.chunks
        /\ f.xml.root_end <= f.chunks
        /\ IsSome(f.xml.malformed_at) => Unwrap(f.xml.malformed_at) <= f.xml.root_end}

\* The Collections the key-mapping mapper builds from the streams.
ParsedCollections ==
    {Collection_try_from(s).v : s \in {q \in Streams : IsOk(Collection_try_from(q))}}

(***************************************************************************)
(* The specifications.  Each runs one part of the program and leaves the   *)
(* variables of the other parts at rest.                                   *)
(***************************************************************************)
MapAtRest == e = <<>> /\ result = NotRun
ComponentAtRest == tuple = <<>> /\ component = NotRun
LookupAtRest == self = <<>> /\ id = None /\ found = None
LoadAtRest ==
    /\ loader = "" /\ file = <<>> /\ lpc = "" /\ decoded = 0 /\ parsed = 0
    /\ loaded = NotRun
SerdeAtRest == c = <<>> /\ serialized = None /\ deserialized = NotRun
ThreadsAtRest == trees = <<>> /\ tpc = <<>> /\ locals = <<>> /\ returned = <<>>

\* -- Collection::find_by_id on a built Collection -------------------------
InitLookup ==
    /\ self \in SeqsUpTo(Ids, MaxComponents)
    /\ id = None
    /\ found = None
    /\ MapAtRest /\ ComponentAtRest /\ LoadAtRest /\ SerdeAtRest /\ ThreadsAtRest

FindById ==
    /\ id = None
    /\ \E appid \in Ids :
        /\ id' = Some(appid)
        /\ found' = Some(find_by_id(self, appid))
    /\ UNCHANGED <<self, mapVars, componentVars, loadVars, serdeVars, threadVars>>

SpecLookup == InitLookup /\ [][FindById]_vars

\* -- Collection::try_from(&Vec<Yaml>) --------------------------------------
InitMap ==
    /\ e \in Streams
    /\ result = NotRun
    /\ ComponentAtRest /\ LookupAtRest /\ LoadAtRest /\ SerdeAtRest /\ ThreadsAtRest

TryFromDocuments ==
    /\ result = NotRun
    /\ result' = Collection_try_from(e)
    /\ UNCHANGED <<e, componentVars, lookupVars, loadVars, serdeVars, threadVars>>

SpecMap == InitMap /\ [][TryFromDocuments]_vars

\* -- Component::try_from((origin, baseurl, node)) ---------------------------
InitComponent ==
    /\ tuple \in {<<a[1], a[2], node>> : a \in HeaderArguments, node \in ComponentNodes}
    /\ component = NotRun
    /\ MapAtRest /\ LookupAtRest /\ LoadAtRest /\ SerdeAtRest /\ ThreadsAtRest

TryFromNode ==
    /\ component = NotRun
    /\ component' = Component_try_from(tuple[1], tuple[2], tuple[3])
    /\ UNCHANGED <<tuple, mapVars, lookupVars, loadVars, serdeVars, threadVars>>

SpecComponent == InitComponent /\ [][TryFromNode]_vars

\* -- the loaders --------------------------------------------------------------
InitLoad ==
    /\ loader \in Loaders
    /\ file \in WellFormedFiles(loader)
    /\ lpc = (IF loader = "from_gzipped_bytes" THEN "parse" ELSE "open")
    /\ decoded = 0
    /\ parsed = 0
    /\ loaded = NotRun
    /\ MapAtRest /\ ComponentAtRest /\ LookupAtRest /\ SerdeAtRest /\ ThreadsAtRest

Rest == <<mapVars, componentVars, lookupVars, serdeVars, threadVars>>

\* File::open(path)? and fs::read_to_string's open.
Open ==
    /\ lpc = "open"
    /\ IF file.exists
       THEN lpc' = AfterOpen(loader) /\ UNCHANGED loaded
       ELSE lpc' = "done" /\ loaded' = Err(ParseError_from("std::io::Error"))
    /\ UNCHANGED <<loader, file, decoded, parsed, Rest>>

\* Element::parse(d) asks its reader (the file, or the GzDecoder over it)
\* for the next chunk; the reader's failure comes back as the parser's.
ParserRead ==
    /\ lpc = "parse"
    /\ parsed = decoded
    /\ IF file.fault = Some(decoded)
       THEN /\ loaded' = Err(ParseError_from("xmltree::ParseError"))
            /\ lpc' = "done"
            /\ UNCHANGED decoded
       ELSE /\ decoded' = decoded + 1
            /\ UNCHANGED <<loaded, lpc>>
    /\ UNCHANGED <<loader, file, parsed, Rest>>

\* Element::parse(d) consumes the chunk it has read.
ParserConsume ==
    /\ lpc = "parse"
    /\ parsed < decoded
    /\ parsed' = parsed + 1
    /\ IF file.xml.malformed_at = Some(parsed + 1)
       THEN loaded' = Err(ParseError_from("xmltree::ParseError")) /\ lpc' = "done"
       ELSE /\ lpc' = (IF parsed + 1 = file.xml.root_end THEN "map" ELSE "parse")
            /\ UNCHANGED loaded
    /\ UNCHANGED <<loader, file, decoded, Rest>>

\* fs::read_to_string(path)? / d.read_to_string(&mut s)?: one read of the
\* loop that runs to the end of the stream.
ReadToString ==
    /\ lpc = "read_to_string"
    /\ IF file.fault = Some(decoded)
       THEN /\ loaded' = Err(ParseError_from("std::io::Error"))
            /\ lpc' = "done"
            /\ UNCHANGED decoded
       ELSE /\ decoded' = decoded + 1
            /\ lpc' = (IF decoded = file.chunks THEN "load" ELSE "read_to_string")
            /\ UNCHANGED loaded
    /\ UNCHANGED <<loader, file, parsed, Rest>>

\* YamlLoader::load_from_str(s.as_str()).unwrap()
LoadFromStr ==
    /\ lpc = "load"
    /\ IF file.yaml.wellformed
       THEN lpc' = "map" /\ UNCHANGED loaded
       ELSE lpc' = "done" /\ loaded' = Panic("YamlLoader::load_from_str(..).unwrap()")
    /\ UNCHANGED <<loader, file, decoded, parsed, Rest>>

\* Collection::try_from(&rrr)? / Collection::try_from(&element)?
TryFromTree ==
    /\ lpc = "map"
    /\ loaded' = (IF loader \in YamlLoaders THEN Collection_try_from(file.yaml.docs)
                  ELSE Collection_try_from_element(file.xml))
    /\ lpc' = "done"
    /\ UNCHANGED <<loader, file, decoded, parsed, Rest>>

NextLoad ==
    \/ Open
    \/ ParserRead
    \/ ParserConsume
    \/ ReadToString
    \/ LoadFromStr
    \/ TryFromTree

SpecLoad == InitLoad /\ [][NextLoad]_vars

\* -- serde on a parsed Collection -----------------------------------------------
InitSerde ==
    /\ c \in ParsedCollections
    /\ serialized = None
    /\ deserialized = NotRun
    /\ MapAtRest /\ ComponentAtRest /\ LookupAtRest /\ LoadAtRest /\ ThreadsAtRest

Serialize ==
    /\ serialized = None
    /\ serialized' = Some(Collection_serialize(c))
    /\ UNCHANGED <<c, deserialized, mapVars, componentVars, lookupVars, loadVars, threadVars>>

Deserialize ==
    /\ IsSome(serialized)
    /\ deserialized = NotRun
    /\ deserialized' = Collection_deserialize(Unwrap(serialized))
    /\ UNCHANGED <<c, serialized, mapVars, componentVars, lookupVars, loadVars, threadVars>>

NextSerde == Serialize \/ Deserialize

SpecSerde == InitSerde /\ [][NextSerde]_vars

\* -- Collection::try_from called concurrently, each call on its own tree --------
Threads == {1, 2}

\* The streams the concurrent calls are given: a header that is read or one
\* without Version, then component documents that map or do not.
ThreadStreams ==
    {<<>>}
    \cup {<<h>> \o nodes :
            h \in {Map3("Version", YString("0.8"), "Origin", YString("chromodoris-main"),
                        "MediaBaseUrl", YString("https://m.org/media/")),
                   Map1("Origin", YString("chromodoris-main"))},
            nodes \in SeqsUpTo({Map1("ID", YString("org.mozilla.Firefox")),
                                Map1("Type", YString("font"))}, MaxComponents)}

\* A frame shared by every call, as a process-wide static would be.
SharedFrame(t) == 1

\* `let mut collection`, `let origin`, `let media_base_url`: locals of the
\* call, which each call has in its own frame.
Frame(t) == t

\* The locals after the header has been read, or why it could not be.
HeaderLocals(header) ==
    AndThen(HeaderVersion(header),
        LAMBDA version :
            AndThen(HeaderOrigin(header),
                LAMBDA origin :
                    AndThen(HeaderMediaBaseUrl(header),
                        LAMBDA media_base_url :
                            Ok([collection |-> HeaderBuilder(header, version),
                                origin |-> origin,
                                media_base_url |-> media_base_url]))))

InitThreads ==
    /\ trees \in [Threads -> ThreadStreams]
    /\ tpc = [t \in Threads |-> 1]
    /\ locals = [t \in Threads |-> None]
    /\ returned = [t \in Threads |-> NotRun]
    /\ MapAtRest /\ ComponentAtRest /\ LookupAtRest /\ LoadAtRest /\ SerdeAtRest

Others == <<mapVars, componentVars, lookupVars, loadVars, serdeVars>>

\* let header = &e[0]; ... up to the loop.
ReadHeader(t) ==
    /\ returned[t] = NotRun
    /\ tpc[t] = 1
    /\ IF Len(trees[t]) = 0
       THEN /\ returned' = [returned EXCEPT ![t] = Panic("e[0]")]
            /\ UNCHANGED <<tpc, locals>>
       ELSE IF IsOk(HeaderLocals(trees[t][1]))
       THEN /\ locals' = [locals EXCEPT ![Frame(t)] = HeaderLocals(trees[t][1]).v]
            /\ tpc' = [tpc EXCEPT ![t] = 2]
            /\ UNCHANGED returned
       ELSE /\ returned' = [returned EXCEPT ![t] = HeaderLocals(trees[t][1])]
            /\ UNCHANGED <<tpc, locals>>
    /\ UNCHANGED <<trees, Others>>

\* One turn of `for node in e.iter().skip(1)`.
MapDocument(t) ==
    /\ returned[t] = NotRun
    /\ tpc[t] >= 2
    /\ tpc[t] <= Len(trees[t])
    /\ IF IsOk(Component_try_from(locals[Frame(t)].origin, locals[Frame(t)].media_base_url,
                                  trees[t][tpc[t]]))
       THEN /\ locals' = [locals EXCEPT ![Frame(t)].collection.components =
                   Append(@, Component_try_from(locals[Frame(t)].origin,
                                                locals[Frame(t)].media_base_url,
                                                trees[t][tpc[t]]).v)]
            /\ tpc' = [tpc EXCEPT ![t] = @ + 1]
            /\ UNCHANGED returned
       ELSE /\ returned' = [returned EXCEPT ![t] =
                   Component_try_from(locals[Frame(t)].origin,
                                      locals[Frame(t)].media_base_url, trees[t][tpc[t]])]
            /\ UNCHANGED <<tpc, locals>>
    /\ UNCHANGED <<trees, Others>>

\* Ok(collection.build())
Build(t) ==
    /\ returned[t] = NotRun
    /\ tpc[t] >= 2
    /\ tpc[t] = Len(trees[t]) + 1
    /\ returned' = [returned EXCEPT ![t] = Ok(locals[Frame(t)].collection)]
    /\ UNCHANGED <<trees, tpc, locals, Others>>

NextThreads == \E t \in Threads : ReadHeader(t) \/ MapDocument(t) \/ Build(t)

SpecThreads == InitThreads /\ [][NextThreads]_vars

(***************************************************************************)
(* The claims.                                                             *)
(***************************************************************************)
\* C1: find_by_id(id) returns exactly the components whose id is id or is id
\* followed by ".desktop", each once and in the collection's order: a
\* component is returned if and only if its id is one of those two texts.
C1_FindByIdExact ==
    IsSome(found) =>
        LET hits == Unwrap(found)
            wanted == {Unwrap(id), Unwrap(id) \o ".desktop"}
        IN /\ \A k \in 1..Len(hits) : hits[k] \in 1..Len(self)
           /\ \A k \in 1..Len(hits) : self[hits[k]] \in wanted
           /\ \A i \in 1..Len(self) :
                  self[i] \in wanted => \E k \in 1..Len(hits) : hits[k] = i
           /\ \A j, k \in 1..Len(hits) : j < k => hits[j] < hits[k]

\* C1's case: a collection holding both "org.mozilla.Firefox" and
\* "org.mozilla.Firefox.desktop", looked up by the former, gave both.
C1_Witness ==
    /\ id = Some("org.mozilla.Firefox")
    /\ self = <<"org.mozilla.Firefox", "org.mozilla.Firefox.desktop">>
    /\ found = Some(<<1, 2>>)

\* -- what the claims speak of ---------------------------------------------------
Header == e[1]
Node == tuple[3]
HasKey(y, key) == y.t = "Hash" /\ IsSome(HashGet(y.h, YString(key)))
WithoutKey(y, key) == YHash(SelectSeq(y.h, LAMBDA p : p[1] # YString(key)))
AllStrings(y) == y.t = "Array" /\ \A j \in 1..Len(y.a) : IsSome(as_str(y.a[j]))

\* The characters of a calendar text.
Chars(s) ==
    IF s = "2019-06-20" THEN <<"2", "0", "1", "9", "-", "0", "6", "-", "2", "0">>
    ELSE <<>>

\* C2: a header with a string Version that omits Origin and/or MediaBaseUrl,
\* followed by component documents that map, gives a Collection, and the
\* Collection's origin / media_base_url is None for each omitted key.
C2_OmittedHeaderFieldsAreNone ==
    ( /\ result # NotRun
      /\ Len(e) >= 1
      /\ IsSome(as_str(Index(Header, "Version")))
      /\ ~HasKey(Header, "Origin") \/ ~HasKey(Header, "MediaBaseUrl")
      /\ \A a \in HeaderArguments, i \in 2..Len(e) :
             IsOk(Component_try_from(a[1], a[2], e[i])) )
    => /\ IsOk(result)
       /\ ~HasKey(Header, "Origin") => result.v.origin = None
       /\ ~HasKey(Header, "MediaBaseUrl") => result.v.media_base_url = None

\* C3: in a component that maps, a release whose `date` is a calendar text in
\* %Y-%m-%d form has as its date midnight UTC of that day, the instant
\* `unix-timestamp` gives for the same day (1560988800 for "2019-06-20").
C3_CalendarDateIsMidnightUtc ==
    ( /\ IsOk(component)
      /\ HasKey(Node, "Releases")
      /\ Index(Node, "Releases").t = "Array" )
    => \A j \in 1..Len(Index(Node, "Releases").a) :
           ( /\ IsSome(as_str(Index(Index(Node, "Releases").a[j], "date")))
             /\ IsOk(deserialize_date(Chars(Index(Index(Node, "Releases").a[j], "date").s))) )
           => component.v.releases[j].date
                = Some(deserialize_date(Chars(Index(Index(Node, "Releases").a[j], "date").s)).v)

\* C4: in a gzip-aware loader no content is parsed before the decoder has
\* read the stream to its end, and a damaged stream ends the loader in
\* DecompressionFailure.
C4_DecompressionBeforeParsing ==
    loader \in GzipLoaders =>
        /\ (parsed > 0 \/ lpc \in {"load", "map"}) => decoded = file.chunks + 1
        /\ (lpc = "done" /\ file.exists /\ IsSome(file.fault))
               => IsErr(loaded) /\ loaded.e.kind = "DecompressionFailure"

\* C5: a Categories list of strings never makes the mapping fail: the outcome
\* is that of the same node without its Categories key, and when that is a
\* Component its categories are the listed tokens, a known token as its
\* variant and any other token as Unknown(token).
C5_CategoryTokensAccepted ==
    ( /\ component # NotRun
      /\ HasKey(Node, "Categories")
      /\ AllStrings(Index(Node, "Categories")) )
    => IF IsOk(Component_try_from(tuple[1], tuple[2], WithoutKey(Node, "Categories")))
       THEN component =
              Ok([Component_try_from(tuple[1], tuple[2], WithoutKey(Node, "Categories")).v
                  EXCEPT !.categories =
                      [j \in 1..Len(Index(Node, "Categories").a) |->
                          IF Index(Node, "Categories").a[j].s \in KnownCategories
                          THEN [category |-> Index(Node, "Categories").a[j].s]
                          ELSE [category |-> "Unknown",
                                token |-> Index(Node, "Categories").a[j].s]]])
       ELSE component = Component_try_from(tuple[1], tuple[2], WithoutKey(Node, "Categories"))

\* C5's case: the tokens "mycustomcat", "GNOME" and "GTK" were mapped.
C5_Witness ==
    /\ IsOk(component)
    /\ HasKey(Node, "Categories")
    /\ component.v.categories = <<[category |-> "Unknown", token |-> "mycustomcat"],
                                  [category |-> "Unknown", token |-> "GNOME"],
                                  [category |-> "Unknown", token |-> "GTK"]>>

\* C6: deserializing the serialized form of a parsed Collection gives the
\* Collection back, and the form has no key for an origin, media_base_url or
\* architecture that is None nor for an empty components sequence.
C6_SerdeRoundTrip ==
    /\ deserialized # NotRun => deserialized = Ok(c)
    /\ IsSome(serialized) =>
          /\ IsNone(c.origin) <=> IsNone(FieldFrom(Unwrap(serialized), "origin", 1))
          /\ IsNone(c.media_base_url)
                <=> IsNone(FieldFrom(Unwrap(serialized), "media_base_url", 1))
          /\ IsNone(c.architecture)
                <=> IsNone(FieldFrom(Unwrap(serialized), "architecture", 1))
          /\ c.components = <<>> <=> IsNone(FieldFrom(Unwrap(serialized), "components", 1))

\* C6's case: a Collection without origin, architecture and components came
\* back from its serialized form, which leaves those keys out.
C6_Witness ==
    /\ deserialized = Ok(c)
    /\ c.origin = None /\ c.architecture = None /\ c.components = <<>>
    /\ IsSome(c.media_base_url)
    /\ Len(Unwrap(serialized)) = 2

\* C7: a key-mapping loader whose text is not well-formed returns the error
\* MalformedTree.
C7_MalformedYamlIsMalformedTree ==
    ( /\ loader \in YamlLoaders
      /\ lpc = "done"
      /\ file.exists
      /\ IsNone(file.fault)
      /\ ~file.yaml.wellformed )
    => IsErr(loaded) /\ loaded.e.kind = "MalformedTree"

\* C8: mapping a document stream always returns: a Collection or an error of
\* the taxonomy.
C8_MapperAlwaysReturns ==
    result # NotRun => IsOk(result) \/ (IsErr(result) /\ result.e.kind \in ErrorTaxonomy)

\* C9: when document 0 has no string-valued Version the mapping fails with
\* MissingAttribute("version"), whatever else the stream holds; when it has
\* one and the mapping gives a Collection, that string is its version.
C9_VersionMandatory ==
    (result # NotRun /\ Len(e) >= 1) =>
        /\ IsNone(as_str(Index(Header, "Version")))
              => result = Err(missing_attribute("version", "collection"))
        /\ (IsSome(as_str(Index(Header, "Version"))) /\ IsOk(result))
              => result.v.version = Index(Header, "Version").s

\* C9's case: a header with Origin and MediaBaseUrl but no Version, followed
\* by a component document, was refused.
C9_Witness ==
    /\ Len(e) >= 2
    /\ HasKey(Header, "Origin") /\ HasKey(Header, "MediaBaseUrl")
    /\ ~HasKey(Header, "Version")
    /\ result = Err(missing_attribute("version", "collection"))

\* C10 as stated: a component mapping without an ID key fails with
\* MissingTag.
C10_MissingIdIsMissingTag ==
    (component # NotRun /\ Node.t = "Hash" /\ ~HasKey(Node, "ID"))
        => IsErr(component) /\ component.e.kind = "MissingTag"

\* C10: a component mapping without an ID key fails with MissingTag("id"),
\* unless its Type is a string that names no component kind: Type is read
\* first, and the mapping then fails with InvalidValue(type, "type",
\* "component").  When ID is a string and the mapping gives a Component, the
\* Component's id is that string as an AppId.
C10_MissingIdUnlessBadType ==
    (component # NotRun /\ Node.t = "Hash") =>
        /\ ~HasKey(Node, "ID") =>
              component =
                 IF /\ IsSome(as_str(Index(Node, "Type")))
                    /\ Index(Node, "Type").s \notin ComponentKinds
                 THEN Err(invalid_value(Index(Node, "Type").s, "type", "component"))
                 ELSE Err(missing_tag("id"))
        /\ (IsSome(as_str(Index(Node, "ID"))) /\ IsOk(component))
              => component.v.id = Some(AppIdFrom(Index(Node, "ID").s))

\* C10's case: a mapping with a valid Type and no ID was refused with
\* MissingTag("id").
C10_Witness ==
    /\ Node.t = "Hash"
    /\ ~HasKey(Node, "ID")
    /\ Index(Node, "Type") = YString("desktop-application")
    /\ component = Err(missing_tag("id"))

\* C11: a component whose Type is a string naming no component kind is
\* refused with InvalidValue(value, "type", "component"), whatever else the
\* mapping holds; a Type naming a kind is the kind of the Component built.
C11_UnknownTypeRefused ==
    (component # NotRun /\ IsSome(as_str(Index(Node, "Type")))) =>
        /\ Index(Node, "Type").s \notin ComponentKinds
              => component = Err(invalid_value(Index(Node, "Type").s, "type", "component"))
        /\ (Index(Node, "Type").s \in ComponentKinds /\ IsOk(component))
              => component.v.kind = Index(Node, "Type").s

\* C11's case: a mapping with an ID and the Type "bogus" was refused.
C11_Witness ==
    /\ HasKey(Node, "ID")
    /\ Index(Node, "Type") = YString("bogus")
    /\ component = Err(invalid_value("bogus", "type", "component"))

\* The header gave a version, an origin and a media base URL.
HeaderRead ==
    /\ IsOk(HeaderVersion(Header))
    /\ IsOk(HeaderOrigin(Header))
    /\ IsOk(HeaderMediaBaseUrl(Header))

\* What document k of the stream maps to under the header's origin and URL.
Document(k) ==
    Component_try_from(Index(Header, "Origin").s, Index(Header, "MediaBaseUrl").s, e[k + 1])

\* C12: when a component document fails to map, the mapping of the stream
\* returns the failure of the first such document and no Collection; a
\* Collection is returned exactly when every component document maps.
C12_FailFast ==
    (result # NotRun /\ Len(e) >= 1 /\ HeaderRead) =>
        /\ \A k \in 1..(Len(e) - 1) :
              ( /\ ~IsOk(Document(k))
                /\ \A j \in 1..(k - 1) : IsOk(Document(j)) )
              => result = Document(k)
        /\ IsOk(result) <=> \A k \in 1..(Len(e) - 1) : IsOk(Document(k))

\* C12's case: the first component document mapped and the second was
\* refused; the stream's mapping returned the second one's error.
C12_Witness ==
    /\ Len(e) = 3
    /\ HeaderRead
    /\ IsOk(Document(1))
    /\ IsErr(Document(2))
    /\ result = Document(2)

\* C13: no mapping of a component aborts on a width or a height: a
\* dimension that is missing, no number or no u32 is an absent dimension of
\* the icon or image built.
C13_DimensionsDegrade ==
    component # NotRun =>
        component \notin {Panic("width.unwrap()"), Panic("height.unwrap()")}

\* The relative paths the media of the component mappings are given by.
RelativePaths == {"i.png", "s.png"}

\* C14: the URL of every remote icon and of every screenshot image of a
\* Component built is, character for character, the base URL followed by
\* the relative path.
C14_UrlIsConcatenation ==
    IsOk(component) =>
        /\ \A k \in 1..Len(component.v.icons) :
              component.v.icons[k].icon = "Remote"
                 => component.v.icons[k].url \in {tuple[2] \o p : p \in RelativePaths}
        /\ \A k \in 1..Len(component.v.screenshots) :
              \A j \in 1..Len(component.v.screenshots[k].images) :
                 component.v.screenshots[k].images[j].url
                    \in {tuple[2] \o p : p \in RelativePaths}

\* C15: in a Component built, the screenshot of an entry without a `default`
\* key has the is_default of a fresh ScreenshotBuilder, and the screenshot of
\* an entry whose `default` is a boolean has that boolean.
C15_DefaultOnlyWhenPresent ==
    ( /\ IsOk(component)
      /\ HasKey(Node, "Screenshots")
      /\ Index(Node, "Screenshots").t = "Array" )
    => \A k \in 1..Len(Index(Node, "Screenshots").a) :
          /\ ~HasKey(Index(Node, "Screenshots").a[k], "default")
                => component.v.screenshots[k].is_default = ScreenshotBuilder_default.is_default
          /\ IsSome(as_bool(Index(Index(Node, "Screenshots").a[k], "default")))
                => component.v.screenshots[k].is_default
                      = Index(Index(Node, "Screenshots").a[k], "default").b

\* A value of `date` / `unix-timestamp` that is neither epoch seconds nor a
\* %Y-%m-%d calendar date.
Unparsable(y) ==
    CASE y.t = "Integer" -> ~IsOk(deserialize_date(to_string(y.i)))
      [] y.t = "String" -> ~IsOk(deserialize_date(Chars(y.s)))
      [] OTHER -> TRUE

\* C16: a component mapping with a release whose `date` or `unix-timestamp`
\* is present and unparsable does not map to a Component: the value is
\* never passed over, leaving the release without a date.
C16_UnparsableDateRefused ==
    ( /\ component # NotRun
      /\ HasKey(Node, "Releases")
      /\ Index(Node, "Releases").t = "Array" )
    => \A j \in 1..Len(Index(Node, "Releases").a) :
          \A f \in {"date", "unix-timestamp"} :
             ( /\ HasKey(Index(Node, "Releases").a[j], f)
               /\ Unparsable(Index(Index(Node, "Releases").a[j], f)) )
             => ~IsOk(component)

\* C17: a Collection returned by the mapping of a stream has a non-empty
\* version, and so has every release of every one of its components.
C17_VersionsNonEmpty ==
    IsOk(result) =>
        /\ result.v.version # ""
        /\ \A k \in 1..Len(result.v.components) :
              \A j \in 1..Len(result.v.components[k].releases) :
                 result.v.components[k].releases[j].version # ""

\* C18: a Collection mapped from a stream of n + 1 documents has n
\* components, and its component i is what document i maps to: the header
\* is no component, and no document is passed over, repeated or moved.
C18_ComponentsInDocumentOrder ==
    IsOk(result) =>
        /\ Len(result.v.components) = Len(e) - 1
        /\ \A k \in 1..(Len(e) - 1) : Document(k) = Ok(result.v.components[k])

\* C18's case: a header and two different component documents gave a
\* Collection of their two components, in that order.
C18_Witness ==
    /\ IsOk(result)
    /\ Len(e) = 3
    /\ e[2] # e[3]
    /\ Len(result.v.components) = 2
    /\ result.v.components[1].id = Some(AppIdFrom("gconf-editor.desktop"))
    /\ result.v.components[2].id = Some(AppIdFrom("org.mozilla.Firefox"))

\* The keys the component's match and the screenshot's match have an arm
\* for, with the two keys read before the loop.
ComponentKeyNames ==
    {"ID", "Type", "Name", "Summary", "DeveloperName", "Description", "ProjectLicense",
     "Icon", "ProjectGroup", "CompulsoryForDesktop", "Package", "Categories",
     "SourcePackage", "Keywords", "Screenshots", "Releases", "Extends"}
ScreenshotKeyNames == {"default", "caption", "thumbnails", "source-image"}

\* A mapping without its string keys outside `known`.
Known(y, known) ==
    IF y.t = "Hash"
    THEN YHash(SelectSeq(y.h, LAMBDA p : p[1].t # "String" \/ p[1].s \in known))
    ELSE y

KnownScreenshots(v) ==
    IF v.t = "Array"
    THEN YArray([k \in 1..Len(v.a) |-> Known(v.a[k], ScreenshotKeyNames)])
    ELSE v

\* A component mapping without its unknown keys and without the unknown
\* keys of its screenshot entries.
KnownOnly(node) ==
    YHash([k \in 1..Len(Known(node, ComponentKeyNames).h) |->
              IF Known(node, ComponentKeyNames).h[k][1] = YString("Screenshots")
              THEN <<YString("Screenshots"),
                     KnownScreenshots(Known(node, ComponentKeyNames).h[k][2])>>
              ELSE Known(node, ComponentKeyNames).h[k]])

\* C19: a component mapping with unknown keys, of its own or of its
\* screenshot entries, maps to what the same mapping without those keys maps
\* to: they cause no error and change nothing of the Component.
C19_UnknownKeysIgnored ==
    (component # NotRun /\ Node.t = "Hash" /\ KnownOnly(Node) # Node)
        => component = Component_try_from(tuple[1], tuple[2], KnownOnly(Node))

\* C19's case: a mapping of an ID and an unknown key gave a Component.
C19_Witness ==
    /\ HasKey(Node, "ID")
    /\ HasKey(Node, "X-Unknown")
    /\ IsOk(component)

\* C20: a Component built by the key-mapping mapper has no provides, urls,
\* bundles, launchables and metadata and no content rating, whatever keys
\* its mapping holds.
C20_MarkupOnlyFacetsEmpty ==
    IsOk(component) =>
        /\ component.v.provides = <<>>
        /\ component.v.urls = <<>>
        /\ component.v.bundles = <<>>
        /\ component.v.launchables = <<>>
        /\ component.v.content_rating = None
        /\ component.v.metadata = <<>>

\* C20's case: a mapping with an ID and a `provides` key gave a Component
\* without provides.
C20_Witness ==
    /\ HasKey(Node, "ID")
    /\ HasKey(Node, "provides")
    /\ IsOk(component)
    /\ component.v.provides = <<>>

\* C21: a mapping never changes the document stream it is given, and each of
\* two mappings run in any interleaving, each on its own stream, returns what
\* it returns when run alone.
C21_MappingsIndependent ==
    /\ [][trees' = trees]_vars
    /\ [](\A t \in Threads :
             returned[t] # NotRun => returned[t] = Collection_try_from(trees[t]))

\* C21's case: of two mappings on different streams, one returned a
\* Collection of two components and the other an error.
C21_Witness ==
    /\ trees[1] # trees[2]
    /\ IsOk(returned[1])
    /\ Len(returned[1].v.components) = 2
    /\ IsErr(returned[2])
    /\ Len(trees[2]) = 3

\* C22: find_by_id returns the components whose id is the looked-up id with
\* ".desktop" added, and also those whose id is the looked-up id with
\* ".desktop" taken off.
C22_AliasTwoWay ==
    IsSome(found) =>
        \A i \in 1..Len(self) :
            (self[i] = Unwrap(id) \o ".desktop" \/ self[i] \o ".desktop" = Unwrap(id))
                => \E k \in 1..Len(Unwrap(found)) : Unwrap(found)[k] = i

\* C23: every component of a Collection mapped from a stream has as its
\* origin the header's Origin string, the empty string included; the
\* Collection's own origin is that string, or None when it is empty.
C23_ComponentOriginIsHeaderOrigin ==
    IsOk(result) =>
        /\ \A k \in 1..Len(result.v.components) :
              result.v.components[k].origin = as_str(Index(Header, "Origin"))
        /\ result.v.origin =
              IF Index(Header, "Origin") = YString("") THEN None
              ELSE as_str(Index(Header, "Origin"))

\* C23's case: under a header whose Origin is the empty string, a Collection
\* without origin was built whose component has the empty origin.
C23_Witness ==
    /\ IsOk(result)
    /\ Index(Header, "Origin") = YString("")
    /\ Len(result.v.components) >= 1
    /\ result.v.origin = None
    /\ result.v.components[1].origin = Some("")

\* C24: in a Component built, the date of a release is the instant of its
\* integer `unix-timestamp` when it has one, else the instant of its integer
\* `date` when it has one, else absent.
C24_TimestampOverridesDate ==
    ( /\ IsOk(component)
      /\ HasKey(Node, "Releases")
      /\ Index(Node, "Releases").t = "Array" )
    => \A j \in 1..Len(Index(Node, "Releases").a) :
          component.v.releases[j].date =
             IF IsSome(as_i64(Index(Index(Node, "Releases").a[j], "unix-timestamp")))
             THEN as_i64(Index(Index(Node, "Releases").a[j], "unix-timestamp"))
             ELSE as_i64(Index(Index(Node, "Releases").a[j], "date"))

\* C24's case: a release with `date: 86400` and `unix-timestamp: 1555718400`
\* was built with the date 1555718400.
C24_Witness ==
    /\ IsOk(component)
    /\ HasKey(Node, "Releases")
    /\ Index(Index(Node, "Releases").a[1], "date") = YInteger(86400)
    /\ Index(Index(Node, "Releases").a[1], "unix-timestamp") = YInteger(1555718400)
    /\ component.v.releases[1].date = Some(1555718400)

====
